---- MODULE Spec2Model ----
(***************************************************************************)
(* The chat client of rafsun-riad/chat-bot: the useWebSocket hook          *)
(* (src/frontend/hooks/useWebSocket.ts) and the Home page that drives it   *)
(* (src/frontend/app/page.tsx).                                            *)
(*                                                                         *)
(* Strings are sequences of one-character strings, so that trim(), the     *)
(* extension test and the template literals are computed, not assumed.     *)
(* JSON text is the sequence of its tokens.                                *)
(***************************************************************************)
EXTENDS Integers, Sequences, FiniteSets, TLC

VARIABLES
    messages,    \* page.tsx: the `messages` state, the chat log
    connected,   \* useWebSocket.ts: the `connected` state
    token,       \* useWebSocket.ts: the cookie value the current `connect` closed over
    socketRef,   \* useWebSocket.ts: the readyState of socketRef.current, "null" for null
    closing,     \* whether a superseded socket that close() left CLOSING has yet to fire its close event
    listeners,   \* useWebSocket.ts: listenersRef.current
    reading,     \* page.tsx: files given to a FileReader whose onload has not run yet
    mounted,     \* "no" before the effects ran, "yes" while mounted, "gone" after unmount
    latest,      \* per event name, the callback of the last subscribe no unsubscribe followed
    invoked,     \* the handler the last step called, NoHandler when it called none
    called,      \* the send(event, data) call the last step made, if any
    wrote,       \* the frame the last step put on the wire, if any
    delivered    \* the frame the last step's onmessage was given, if any

vars == <<messages, connected, token, socketRef, closing, listeners,
          reading, mounted, latest, invoked, called, wrote, delivered>>

(***************************************************************************)
(* Bounds of the model.                                                    *)
(***************************************************************************)
MaxLog == 3

(***************************************************************************)
(* Strings.                                                                *)
(***************************************************************************)
Whitespace == {" "}

RECURSIVE TrimStart(_)
TrimStart(s) ==
    IF s = <<>> THEN s
    ELSE IF Head(s) \in Whitespace THEN TrimStart(Tail(s)) ELSE s

RECURSIVE TrimEnd(_)
TrimEnd(s) ==
    IF s = <<>> THEN s
    ELSE IF s[Len(s)] \in Whitespace THEN TrimEnd(SubSeq(s, 1, Len(s) - 1)) ELSE s

Trim(s) == TrimEnd(TrimStart(s))

LowerChar(c) ==
    CASE c = "T" -> "t" [] c = "X" -> "x" [] c = "P" -> "p" [] c = "D" -> "d"
      [] c = "F" -> "f" [] c = "O" -> "o" [] c = "C" -> "c" [] OTHER -> c

Lower(s) == [i \in 1..Len(s) |-> LowerChar(s[i])]

EndsWith(s, suffix) ==
    /\ Len(s) >= Len(suffix)
    /\ SubSeq(s, Len(s) - Len(suffix) + 1, Len(s)) = suffix

AllowedExtensions ==
    { <<".", "t", "x", "t">>, <<".", "p", "d", "f">>, <<".", "d", "o", "c", "x">> }

\* A test of the extension that does not ignore case.
ExtensionAllowedCaseSensitive(name) ==
    \E ext \in AllowedExtensions : EndsWith(name, ext)

ExtensionAllowed(name) ==
    \E ext \in AllowedExtensions : EndsWith(Lower(name), ext)


(***************************************************************************)
(* JSON text and frames.  A text frame carries the token sequence of the   *)
(* JSON text, a binary frame carries raw bytes.                            *)
(***************************************************************************)
JSONStringify(event, data) == <<"{", "event", event, "data">> \o data \o <<"}">>

ParseError == [ok |-> FALSE, event |-> "", data |-> <<>>]

JSONParse(text) ==
    IF /\ Len(text) >= 5
       /\ text[1] = "{" /\ text[2] = "event" /\ text[4] = "data"
       /\ text[Len(text)] = "}"
    THEN [ok |-> TRUE, event |-> text[3], data |-> SubSeq(text, 5, Len(text) - 1)]
    ELSE ParseError

TextFrame(body) == [binary |-> FALSE, body |-> body]
BinaryFrame(bytes) == [binary |-> TRUE, body |-> bytes]

Json(v) == [binary |-> FALSE, v |-> v]
Raw(bytes) == [binary |-> TRUE, v |-> bytes]

AuthData(tok) == Json(<<"token:", tok>>)
QuestionData(text, audio) ==
    Json(<<"text:">> \o text \o <<"audio:", IF audio THEN "true" ELSE "false">>)
UploadData(file, filename) == Json(<<"file:">> \o file \o <<"filename:">> \o filename)
WebsiteData(url) == Json(<<"url:">> \o url)

(***************************************************************************)
(* The WebSocket objects.                                                  *)
(***************************************************************************)
NoToken == "undefined"

\* What a step put on the wire: no frame, or the one frame the current socket took.
Nothing == <<>>

\* In place of a frame: WebSocket.prototype.send threw.
InvalidStateError == [binary |-> FALSE, body |-> <<"InvalidStateError">>]

\* WebSocket.prototype.send of the browser: an OPEN socket transmits the frame,
\* a CONNECTING socket throws, a CLOSING or CLOSED socket discards the frame.
NativeSend(readyState, frame) ==
    CASE readyState = "OPEN" -> <<frame>>
      [] readyState = "CONNECTING" -> <<InvalidStateError>>
      [] OTHER -> Nothing

\* WebSocket.prototype.close of the browser: the readyState it leaves.
NativeClose(readyState) ==
    IF readyState \in {"CONNECTING", "OPEN"} THEN "CLOSING" ELSE readyState

\* A call of send(event, data), as `called` records it.
Call(event, data) == <<[event |-> event, data |-> data]>>

\* A send that tests the socket for null only.
sendUnlessNull(event, data) ==
    IF socketRef = "null"
    THEN Nothing
    ELSE IF data.binary
         THEN NativeSend(socketRef, BinaryFrame(data.v))
         ELSE NativeSend(socketRef, TextFrame(JSONStringify(event, data.v)))

\* A send that wraps every payload, binary or not, in an envelope.
sendEnvelopesAll(event, data) ==
    IF socketRef = "null" \/ socketRef # "OPEN"
    THEN Nothing
    ELSE NativeSend(socketRef, TextFrame(JSONStringify(event, data.v)))

\* What send(event, data) puts on the wire.
send(event, data) ==
    IF socketRef = "null" \/ socketRef # "OPEN"
    THEN Nothing
    ELSE IF data.binary
         THEN NativeSend(socketRef, BinaryFrame(data.v))
         ELSE NativeSend(socketRef, TextFrame(JSONStringify(event, data.v)))

NoHandler == "none"

(***************************************************************************)
(* The listener table.                                                     *)
(***************************************************************************)
EventNames == {"status", "error", "answer", "binary"}

NoListeners == [e \in EventNames |-> NoHandler]

\* A subscribe that keeps the handler a name already has.
subscribeKeepsFirst(table, event, callback) ==
    IF table[event] # NoHandler THEN table ELSE [table EXCEPT ![event] = callback]

subscribe(table, event, callback) ==
    IF event = "binary"
    THEN [table EXCEPT !["binary"] = callback]
    ELSE [table EXCEPT ![event] = callback]

unsubscribe(table, event) == [table EXCEPT ![event] = NoHandler]


(***************************************************************************)
(* The chat log and the handlers the page registers.                       *)
(***************************************************************************)
NoAudio == 0

Entry(type, text) == [type |-> type, text |-> text, audioUrl |-> NoAudio]

\* The literal parts of the texts are kept as one token each.
Thinking == <<"Thinking...">>
OnlySupported == <<"Only .txt, .pdf, and .docx files are supported.">>
Uploading(name) == <<"Uploading ">> \o name \o <<"...">>
Indexing(url) == <<"Indexing website: ">> \o url

NotLoading(msg) == msg.type # "loading"

\* A filter with the test the wrong way round.
IsLoading(msg) == msg.type = "loading"

removeOthers(msgs) == SelectSeq(msgs, IsLoading)

removeLoading(msgs) == SelectSeq(msgs, NotLoading)

\* A status handler that puts its entry at the head of the log.
statusHandlerPrepends(msgs, data) == <<Entry("status", data)>> \o msgs

statusHandler(msgs, data) == Append(msgs, Entry("status", data))

\* An answer handler that forgets removeLoading().
answerHandlerKeepsLoading(msgs, data) == Append(msgs, Entry("answer", data))

answerHandler(msgs, data) == Append(removeLoading(msgs), Entry("answer", data))

Reverse(msgs) == [i \in 1..Len(msgs) |-> msgs[Len(msgs) + 1 - i]]

\* Array.prototype.findIndex on the types of the entries: 0-based, -1 when absent.
FindIndexOfType(msgs, type) ==
    IF \E i \in 1..Len(msgs) : msgs[i].type = type
    THEN (CHOOSE i \in 1..Len(msgs) :
            /\ msgs[i].type = type
            /\ \A j \in 1..(i - 1) : msgs[j].type # type) - 1
    ELSE -1

\* An updater that searches the log from its head: it takes the first answer.
attachAudioToFirst(msgs, url) ==
    LET firstAnswerIndex == FindIndexOfType(msgs, "answer")
    IN  IF firstAnswerIndex = -1 THEN msgs
        ELSE [msgs EXCEPT ![firstAnswerIndex + 1].audioUrl = url]

\* An updater that forgets to spread the entry it replaces.
attachAudioNoSpread(msgs, url) ==
    LET lastAnswerIndex == FindIndexOfType(Reverse(msgs), "answer")
        actualIndex == Len(msgs) - 1 - lastAnswerIndex
    IN  IF lastAnswerIndex = -1 THEN msgs
        ELSE [msgs EXCEPT ![actualIndex + 1] =
                [type |-> "undefined", text |-> <<>>, audioUrl |-> url]]

\* The updater the binary handler passes to setMessages.
\* An updater that attaches the audio to the last entry of the log.
attachAudioToTail(msgs, url) ==
    IF msgs = <<>> THEN msgs ELSE [msgs EXCEPT ![Len(msgs)].audioUrl = url]

attachAudio(msgs, url) ==
    LET lastAnswerIndex == FindIndexOfType(Reverse(msgs), "answer")
        actualIndex == Len(msgs) - 1 - lastAnswerIndex
    IN  IF lastAnswerIndex = -1 THEN msgs
        ELSE [msgs EXCEPT ![actualIndex + 1].audioUrl = url]

PageHandlers == {"onStatus", "onAnswer", "onBinary"}


\* URL.createObjectURL: a URL no entry of the log holds (the URLs are numbered,
\* and a number is used again only once no entry holds it).
createObjectURL(msgs) ==
    CHOOSE u \in 1..(Len(msgs) + 1) :
        /\ \A i \in 1..Len(msgs) : msgs[i].audioUrl # u
        /\ \A v \in 1..(u - 1) : \E i \in 1..Len(msgs) : msgs[i].audioUrl = v

\* The log after onmessage called `handler` with `data`; `raw` tells a binary
\* payload from JSON data.
Invoke(handler, msgs, data, raw) ==
    CASE handler = "onStatus" -> statusHandler(msgs, data)
      [] handler = "onAnswer" -> answerHandler(msgs, data)
      [] handler = "onBinary" /\ raw -> attachAudio(msgs, createObjectURL(msgs))
      [] OTHER ->
           \* URL.createObjectURL throws on data that is no Blob, before any
           \* update; a handler of another client does not touch the page.
           msgs

(***************************************************************************)
(* Inputs.                                                                 *)
(***************************************************************************)
Tokens == {NoToken, "jwt"}

\* The data of the inbound envelopes, one text per event name.
InboundData(event) ==
    CASE event = "status" -> <<"s">>
      [] event = "answer" -> <<"a">>
      [] event = "error" -> <<"e">>
      [] OTHER -> <<"b">>

Malformed == <<"{", "oops">>

Envelope(event) == TextFrame(JSONStringify(event, InboundData(event)))

Mp3 == BinaryFrame(<<"mp3">>)

InboundFrames ==
    { Envelope(e) : e \in EventNames } \cup { TextFrame(Malformed), Mp3 }

Inputs == { <<>>, <<" ">>, <<"q">>, <<" ", "q", " ">> }

UrlInputs == { <<>>, <<" ">>, <<" ", "u">> }

FileNames ==
    { <<"n", ".", "D", "o", "c", "X">>,
      <<"n", ".", "p", "n", "g">>, <<"t", "x", "t">>, <<"n", ".", "p", "d", "f", "x">> }

Files == { [name |-> n, content |-> <<"QUJD">>] : n \in FileNames }

\* The files of the upload study: more names, and contents that differ.
UploadNames ==
    FileNames \cup { <<"n", ".", "t", "x", "t">>, <<"n", ".", "P", "D", "F">>,
                     <<"n", ".", "t", "x", "t", ".", "p", "n", "g">> }

UploadFiles ==
    { [name |-> n, content |-> IF Len(n) = 5 THEN <<"REVG">> ELSE <<"QUJD">>] : n \in UploadNames }

\* Handlers of a client other than the page.
ClientHandlers == {"h1", "h2"}

\* What a client other than the page sends: event names with and without a key
\* in the table, JSON data and raw payloads.
ClientEvents == EventNames \cup {"question"}

ClientData == { Json(<<>>), Json(<<"x">>), Json(<<"}", "{">>), Raw(<<"mp3">>), Raw(<<>>) }

\* FileReader.readAsDataURL: "data:<type>;base64,<content>".
DataURL(file) == <<"data:", ";base64", ",">> \o file.content

\* String.prototype.split(",").pop(): what follows the last comma.
RECURSIVE SplitPop(_)
SplitPop(s) ==
    IF \E i \in 1..Len(s) : s[i] = ","
    THEN SplitPop(Tail(s))
    ELSE s


(***************************************************************************)
(* The state after the first render, before any effect has run.            *)
(***************************************************************************)
Init ==
    /\ messages = <<>>
    /\ connected = FALSE
    /\ token \in Tokens
    /\ socketRef = "null"
    /\ closing = FALSE
    /\ listeners = NoListeners
    /\ reading = {}
    /\ mounted = "no"
    /\ latest = NoListeners
    /\ invoked = NoHandler
    /\ called = Nothing
    /\ wrote = Nothing
    /\ delivered = Nothing

\* A step that gets no frame, calls no handler, does not call send and writes
\* no frame.
Silent ==
    invoked' = NoHandler /\ called' = Nothing /\ wrote' = Nothing /\ delivered' = Nothing

(***************************************************************************)
(* Effects.                                                                *)
(***************************************************************************)
\* connect(): socketRef.current is a new socket.
connect == "CONNECTING"

\* The setup of the page's subscribe effect.
subscribeAll(table) ==
    subscribe(subscribe(subscribe(table, "status", "onStatus"),
                        "answer", "onAnswer"),
              "binary", "onBinary")

\* The cleanup of the page's subscribe effect.
unsubscribeAll(table) ==
    unsubscribe(unsubscribe(unsubscribe(unsubscribe(table, "status"), "error"),
                            "answer"),
                "binary")

\* The cleanup of the hook's effect, socketRef.current?.close(): the readyState
\* it leaves the socket in.
teardown == IF socketRef = "null" THEN "null" ELSE NativeClose(socketRef)

\* The callbacks the page's effect subscribes last, per event name.
PageCallbacks ==
    [e \in EventNames |->
        CASE e = "status" -> "onStatus" [] e = "answer" -> "onAnswer"
          [] e = "binary" -> "onBinary" [] OTHER -> NoHandler]

\* The effects of the first commit: the hook connects, the page subscribes.
Mount ==
    /\ mounted = "no"
    /\ mounted' = "yes"
    /\ socketRef' = connect
    /\ listeners' = subscribeAll(listeners)
    /\ latest' = PageCallbacks
    /\ Silent
    /\ UNCHANGED <<messages, connected, token, closing, reading>>

\* A render that reads another cookie value: `connect` changes, so the hook's
\* effect is cleaned up and run again; the page's subscribe effect runs again
\* on every render.  The socket the cleanup closed is superseded: it keeps its
\* callbacks, and its close event is still to come.  Any number of sockets can
\* be superseded; `closing` tells whether one of them is still to close.
Reconnect(tok) ==
    /\ mounted = "yes"
    /\ tok # token
    /\ token' = tok
    /\ closing' = (closing \/ teardown = "CLOSING")
    /\ socketRef' = connect
    /\ listeners' = subscribeAll(unsubscribeAll(listeners))
    /\ latest' = PageCallbacks
    /\ Silent
    /\ UNCHANGED <<messages, connected, reading, mounted>>

\* The component is removed: both effects are cleaned up.
Unmount ==
    /\ mounted = "yes"
    /\ mounted' = "gone"
    /\ listeners' = unsubscribeAll(listeners)
    /\ latest' = NoListeners
    /\ socketRef' = teardown
    /\ Silent
    /\ UNCHANGED <<messages, connected, token, closing, reading>>

(***************************************************************************)
(* The callbacks connect() puts on a socket.                               *)
(***************************************************************************)
\* An onopen that does not test the token.
onopenAlways(readyState) ==
    NativeSend(readyState, TextFrame(JSONStringify("auth", AuthData(token).v)))

\* What onopen puts on the wire, `readyState` being that of socketRef.current.
\* Only the socket connect() made last can open, and the closure of its onopen
\* holds the token of the render that made it.
onopen(readyState) ==
    IF token # NoToken /\ readyState # "null"
    THEN NativeSend(readyState, TextFrame(JSONStringify("auth", AuthData(token).v)))
    ELSE Nothing

SockOpen ==
    /\ socketRef = "CONNECTING"
    /\ socketRef' = "OPEN"
    /\ connected' = TRUE
    /\ wrote' = onopen(socketRef')
    /\ invoked' = NoHandler
    /\ delivered' = Nothing
    /\ called' = Nothing
    /\ UNCHANGED <<messages, token, closing, listeners, reading, mounted, latest>>

\* A lookup that falls back to the binary handler when a text frame does not
\* parse or names an event without handler.
handlerForFallsBack(table, frame) ==
    IF frame.binary THEN table["binary"]
    ELSE LET message == JSONParse(frame.body)
         IN  IF message.ok /\ message.event \in DOMAIN table /\ table[message.event] # NoHandler
             THEN table[message.event]
             ELSE table["binary"]

\* The handler onmessage picks for a frame, NoHandler when it picks none.
handlerFor(table, frame) ==
    IF frame.binary THEN table["binary"]
    ELSE LET message == JSONParse(frame.body)
         IN  IF message.ok /\ message.event \in DOMAIN table
             THEN table[message.event]
             ELSE NoHandler

onmessage(frame) ==
    LET handler == handlerFor(listeners, frame)
        data == IF frame.binary THEN frame.body ELSE JSONParse(frame.body).data
        after == Invoke(handler, messages, data, frame.binary)
    IN  /\ Len(after) <= MaxLog
        /\ messages' = after
        /\ invoked' = handler
        /\ delivered' = <<frame>>
        /\ called' = Nothing
        /\ wrote' = Nothing

\* The browser delivers a message event only on an OPEN socket.
SockMessage(frame) ==
    /\ socketRef = "OPEN"
    /\ onmessage(frame)
    /\ UNCHANGED <<connected, token, socketRef, closing, listeners, reading, mounted, latest>>

\* onclose of the current socket: setConnected(false).
SockClose ==
    /\ socketRef \in {"CONNECTING", "OPEN", "CLOSING"}
    /\ socketRef' = "CLOSED"
    /\ connected' = FALSE
    /\ Silent
    /\ UNCHANGED <<messages, token, closing, listeners, reading, mounted, latest>>

\* onclose of a superseded socket: the same callback, setConnected(false).
StaleClose ==
    /\ closing
    /\ closing' \in BOOLEAN
    /\ connected' = FALSE
    /\ Silent
    /\ UNCHANGED <<messages, token, socketRef, listeners, reading, mounted, latest>>

\* An onerror that treats the error as a close.
SockErrorCloses ==
    /\ socketRef \in {"CONNECTING", "OPEN", "CLOSING"}
    /\ socketRef' = "CLOSED"
    /\ connected' = FALSE
    /\ Silent
    /\ UNCHANGED <<messages, token, closing, listeners, reading, mounted, latest>>

\* onerror only writes to the console.
SockError ==
    /\ socketRef \in {"CONNECTING", "OPEN", "CLOSING"} \/ closing
    /\ Silent
    /\ UNCHANGED <<messages, connected, token, socketRef, closing, listeners,
                   reading, mounted, latest>>

(***************************************************************************)
(* The user's actions.  The text input and both Send buttons are disabled  *)
(* while `connected` is false.                                             *)
(***************************************************************************)
\* An updater that drops the last entry, whatever its type, instead of the
\* loading entries.
askQuestionDropsLast(msgs, trimmed) ==
    SubSeq(msgs, 1, Len(msgs) - 1) \o <<Entry("question", trimmed), Entry("loading", Thinking)>>

\* An updater whose filter names the wrong type.
IsQuestion(msg) == msg.type = "question"

askQuestionFiltersQuestions(msgs, trimmed) ==
    SelectSeq(msgs, LAMBDA m : ~IsQuestion(m))
        \o <<Entry("question", trimmed), Entry("loading", Thinking)>>

\* The updater handleSend passes to setMessages.
askQuestion(msgs, trimmed) ==
    removeLoading(msgs) \o <<Entry("question", trimmed), Entry("loading", Thinking)>>

handleSend(input, audioResponse) ==
    LET trimmed == Trim(input)
    IN  IF trimmed = <<>>
        THEN /\ Silent
             /\ UNCHANGED messages
        ELSE /\ Len(askQuestion(messages, trimmed)) <= MaxLog
             /\ messages' = askQuestion(messages, trimmed)
             /\ called' = Call("question", QuestionData(trimmed, audioResponse))
             /\ wrote' = send("question", QuestionData(trimmed, audioResponse))
             /\ invoked' = NoHandler
             /\ delivered' = Nothing

HandleSend(input, audioResponse) ==
    /\ mounted = "yes"
    /\ connected
    /\ handleSend(input, audioResponse)
    /\ UNCHANGED <<connected, token, socketRef, closing, listeners, reading, mounted, latest>>

\* handleFileChange up to reader.readAsDataURL(file); `files` is e.target.files.
handleFileChange(files) ==
    IF files = <<>>
    THEN UNCHANGED <<messages, reading>>
    ELSE IF ~ExtensionAllowed(files[1].name)
    THEN /\ Len(messages) < MaxLog
         /\ messages' = Append(messages, Entry("error", OnlySupported))
         /\ UNCHANGED reading
    ELSE /\ files[1] \notin reading
         /\ reading' = reading \cup {files[1]}
         /\ UNCHANGED messages

HandleFileChange(files) ==
    /\ mounted = "yes"
    /\ handleFileChange(files)
    /\ Silent
    /\ UNCHANGED <<connected, token, socketRef, closing, listeners, mounted, latest>>

\* reader.onload of handleFileChange.
readerOnload(file) ==
    LET base64 == SplitPop(DataURL(file))
    IN  /\ Len(messages) < MaxLog
        /\ messages' = Append(messages, Entry("upload", Uploading(file.name)))
        /\ called' = Call("upload", UploadData(base64, file.name))
        /\ wrote' = send("upload", UploadData(base64, file.name))
        /\ invoked' = NoHandler
        /\ delivered' = Nothing

ReaderOnload(file) ==
    /\ mounted = "yes"
    /\ file \in reading
    /\ reading' = reading \ {file}
    /\ readerOnload(file)
    /\ UNCHANGED <<connected, token, socketRef, closing, listeners, mounted, latest>>

\* A handleUrlSend that tests the trimmed text and uses the text as typed.
handleUrlSendAsTyped(urlInput) ==
    IF Trim(urlInput) = <<>>
    THEN /\ Silent
         /\ UNCHANGED messages
    ELSE /\ Len(messages) < MaxLog
         /\ messages' = Append(messages, Entry("website", Indexing(urlInput)))
         /\ called' = Call("website", WebsiteData(urlInput))
         /\ wrote' = send("website", WebsiteData(urlInput))
         /\ invoked' = NoHandler
         /\ delivered' = Nothing

handleUrlSend(urlInput) ==
    LET url == Trim(urlInput)
    IN  IF url = <<>>
        THEN /\ Silent
             /\ UNCHANGED messages
        ELSE /\ Len(messages) < MaxLog
             /\ messages' = Append(messages, Entry("website", Indexing(url)))
             /\ called' = Call("website", WebsiteData(url))
             /\ wrote' = send("website", WebsiteData(url))
             /\ invoked' = NoHandler
             /\ delivered' = Nothing

HandleUrlSend(urlInput) ==
    /\ mounted = "yes"
    /\ connected
    /\ handleUrlSend(urlInput)
    /\ UNCHANGED <<connected, token, socketRef, closing, listeners, reading, mounted, latest>>

(***************************************************************************)
(* The page with its hook while the cookie keeps its value: one socket.    *)
(***************************************************************************)
PageNext ==
    \/ Mount
    \/ Unmount
    \/ SockOpen
    \/ \E frame \in InboundFrames : SockMessage(frame)
    \/ SockClose
    \/ SockError
    \/ \E input \in Inputs, audioResponse \in BOOLEAN : HandleSend(input, audioResponse)
    \/ \E files \in {<<>>} \cup {<<f>> : f \in Files} : HandleFileChange(files)
    \/ \E file \in Files : ReaderOnload(file)
    \/ \E urlInput \in UrlInputs : HandleUrlSend(urlInput)

PageSpec == Init /\ [][PageNext]_vars

(***************************************************************************)
(* The page with the files of the upload study, the server silent.         *)
(***************************************************************************)
UploadNext ==
    \/ Mount
    \/ Unmount
    \/ SockOpen
    \/ SockClose
    \/ SockError
    \/ \E files \in {<<>>} \cup {<<f>> : f \in UploadFiles} : HandleFileChange(files)
    \/ \E file \in UploadFiles : ReaderOnload(file)

UploadSpec == Init /\ [][UploadNext]_vars

(***************************************************************************)
(* The hook under a client that subscribes and unsubscribes as it likes.   *)
(***************************************************************************)
\* The hook's effect alone: connect().
HookMount ==
    /\ mounted = "no"
    /\ mounted' = "yes"
    /\ socketRef' = connect
    /\ Silent
    /\ UNCHANGED <<messages, connected, token, closing, listeners, reading, latest>>

\* The cleanup of the hook's effect alone.
HookUnmount ==
    /\ mounted = "yes"
    /\ mounted' = "gone"
    /\ socketRef' = teardown
    /\ Silent
    /\ UNCHANGED <<messages, connected, token, closing, listeners, reading, latest>>

Subscribe(event, callback) ==
    /\ mounted = "yes"
    /\ listeners' = subscribe(listeners, event, callback)
    /\ latest' = [latest EXCEPT ![event] = callback]
    /\ Silent
    /\ UNCHANGED <<messages, connected, token, socketRef, closing, reading, mounted>>

Unsubscribe(event) ==
    /\ mounted = "yes"
    /\ listeners' = unsubscribe(listeners, event)
    /\ latest' = [latest EXCEPT ![event] = NoHandler]
    /\ Silent
    /\ UNCHANGED <<messages, connected, token, socketRef, closing, reading, mounted>>

\* The client calls send.
ClientSend(event, data) ==
    /\ mounted = "yes"
    /\ called' = Call(event, data)
    /\ wrote' = send(event, data)
    /\ invoked' = NoHandler
    /\ delivered' = Nothing
    /\ UNCHANGED <<messages, connected, token, socketRef, closing, listeners,
                   reading, mounted, latest>>

\* The server sends back the frame it has just been sent.
Loopback ==
    /\ wrote # Nothing
    /\ SockMessage(wrote[1])

HookNext ==
    \/ HookMount
    \/ HookUnmount
    \/ \E event \in EventNames, callback \in ClientHandlers : Subscribe(event, callback)
    \/ \E event \in EventNames : Unsubscribe(event)
    \/ \E event \in ClientEvents, data \in ClientData : ClientSend(event, data)
    \/ Loopback
    \/ SockOpen
    \/ \E frame \in InboundFrames : SockMessage(frame)
    \/ SockClose
    \/ SockError

HookSpec == Init /\ [][HookNext]_vars

(***************************************************************************)
(* The page with its hook, the cookie changing between renders.            *)
(***************************************************************************)
Next ==
    \/ PageNext
    \/ \E tok \in Tokens : Reconnect(tok)
    \/ StaleClose

Spec == Init /\ [][Next]_vars


(***************************************************************************)
(* Vocabulary of the properties.                                           *)
(***************************************************************************)
HasLoading(msgs) == \E i \in 1..Len(msgs) : msgs[i].type = "loading"

CountOfType(msgs, type) == Cardinality({i \in 1..Len(msgs) : msgs[i].type = type})

\* The entries of a log that are not loading entries, in order.
Settled(msgs) == SelectSeq(msgs, LAMBDA m : m.type # "loading")

\* A step in which the page handles the inbound envelope of `event`.
Handles(event) == SockMessage(Envelope(event))

\* A step in which the page handles a binary frame.
HandlesBinary == SockMessage(Mp3)

ResponseEvents == {"status", "error", "answer"}

(***************************************************************************)
(* C1: after the page handles an inbound status, error or answer event,    *)
(* the log holds no loading entry.                                         *)
(***************************************************************************)
C1_NoLoadingAfterResponse ==
    [][\A e \in ResponseEvents : Handles(e) => ~HasLoading(messages')]_vars

(***************************************************************************)
(* C2: handling an inbound status, error or answer event with text t puts  *)
(* exactly one new entry at the tail of the log, of the kind of the event  *)
(* and with text t.                                                        *)
(***************************************************************************)
C2_ResponseAppendsEntry ==
    [][\A e \in ResponseEvents :
          Handles(e) =>
            /\ Len(messages') >= 1
            /\ messages'[Len(messages')] = [type |-> e, text |-> InboundData(e), audioUrl |-> 0]
            /\ Settled(messages') = Append(Settled(messages), messages'[Len(messages')])
      ]_vars


(***************************************************************************)
(* C3: a non-empty question followed at once by the server's answer leaves *)
(* a log without loading entry, with exactly one more answer entry than    *)
(* before the question; that answer is the last entry and directly follows *)
(* the new question entry.                                                 *)
(***************************************************************************)
\* The log is as a non-empty question leaves it: it ends with the question and
\* its loading entry.
JustAsked(msgs) ==
    /\ Len(msgs) >= 2
    /\ msgs[Len(msgs) - 1].type = "question"
    /\ msgs[Len(msgs)].type = "loading"

C3_QuestionThenAnswer ==
    [][/\ \A input \in Inputs, audio \in BOOLEAN :
            HandleSend(input, audio) /\ Trim(input) # <<>> =>
              /\ JustAsked(messages')
              /\ messages'[Len(messages') - 1].text = Trim(input)
              /\ CountOfType(messages', "answer") = CountOfType(messages, "answer")
       /\ Handles("answer") /\ JustAsked(messages) =>
            /\ ~HasLoading(messages')
            /\ CountOfType(messages', "answer") = CountOfType(messages, "answer") + 1
            /\ Len(messages') = Len(messages)
            /\ messages'[Len(messages')] = [type |-> "answer", text |-> InboundData("answer"), audioUrl |-> 0]
            /\ messages'[Len(messages') - 1] = messages[Len(messages) - 1]
      ]_vars

\* A question asked on a non-empty log has been answered.
C3_Witness ==
    /\ invoked = "onAnswer"
    /\ Len(messages) = 3
    /\ messages[2].type = "question"
    /\ messages[3].type = "answer"


(***************************************************************************)
(* C4 as stated: a binary frame attaches its audio to the answer entry     *)
(* nearest the tail among those without audioUrl; an answer that has one   *)
(* is never chosen, and when every answer has one the log is unchanged.    *)
(***************************************************************************)
\* The positions of the answers of a log that have no audio yet.
Lacking(msgs) == {i \in 1..Len(msgs) : msgs[i].type = "answer" /\ msgs[i].audioUrl = NoAudio}

Max(S) == CHOOSE x \in S : \A y \in S : y <= x

\* The positions at which two logs of the same length differ.
Changed(before, after) == {i \in 1..Len(before) : after[i] # before[i]}

C4_AttachesToNearestLacking ==
    [][HandlesBinary =>
          /\ Len(messages') = Len(messages)
          /\ IF Lacking(messages) = {}
             THEN messages' = messages
             ELSE /\ Changed(messages, messages') = {Max(Lacking(messages))}
                  /\ messages'[Max(Lacking(messages))].audioUrl # NoAudio
      ]_vars

(***************************************************************************)
(* C4 as amended: a binary frame attaches its audio to the answer entry    *)
(* nearest the tail, whether or not that entry has an audioUrl (one it has *)
(* is replaced by the new one); no other entry changes, and without any    *)
(* answer entry the log is unchanged.                                      *)
(***************************************************************************)
Answers(msgs) == {i \in 1..Len(msgs) : msgs[i].type = "answer"}

C4_AttachesToLastAnswer ==
    [][HandlesBinary =>
          /\ Len(messages') = Len(messages)
          /\ IF Answers(messages) = {}
             THEN messages' = messages
             ELSE LET k == Max(Answers(messages))
                  IN  /\ Changed(messages, messages') = {k}
                      /\ messages'[k].audioUrl # NoAudio
                      /\ messages'[k].audioUrl # messages[k].audioUrl
                      /\ \A i \in 1..Len(messages) : messages[i].audioUrl # messages'[k].audioUrl
                      /\ messages'[k].type = "answer"
                      /\ messages'[k].text = messages[k].text
      ]_vars

\* The audio of the last answer has been replaced, an earlier answer has none:
\* URL 1 was handed out and no entry holds it any more.
C4_Witness ==
    /\ invoked = "onBinary"
    /\ \E i, k \in 1..Len(messages) :
          /\ i < k
          /\ messages[i].type = "answer" /\ messages[i].audioUrl = NoAudio
          /\ messages[k].type = "answer" /\ messages[k].audioUrl = 2

(***************************************************************************)
(* C5: a binary frame on a log without answer entry leaves the log as it   *)
(* is; a binary frame on a log whose last answer entry has no audioUrl     *)
(* sets the audioUrl of that entry and changes nothing else.               *)
(***************************************************************************)
WithoutAudio(msgs) == [i \in 1..Len(msgs) |-> [type |-> msgs[i].type, text |-> msgs[i].text]]

C5_BinaryFrameEffect ==
    [][HandlesBinary =>
          /\ CountOfType(messages, "answer") = 0 => messages' = messages
          /\ \A k \in 1..Len(messages) :
                /\ messages[k].type = "answer" /\ messages[k].audioUrl = NoAudio
                /\ \A j \in (k + 1)..Len(messages) : messages[j].type # "answer"
                => /\ messages'[k].audioUrl # NoAudio
                   /\ WithoutAudio(messages') = WithoutAudio(messages)
                   /\ \A j \in 1..Len(messages) : j # k => messages'[j] = messages[j]
      ]_vars

\* The last answer got its audio, and entries follow it.
C5_Witness ==
    /\ invoked = "onBinary"
    /\ Len(messages) = 3
    /\ messages[1].type = "answer" /\ messages[1].audioUrl # NoAudio
    /\ messages[2].type # "answer" /\ messages[3].type # "answer"


(***************************************************************************)
(* C6: send() while there is no socket or the socket is not OPEN writes    *)
(* nothing, raises nothing and changes nothing of the connection; the      *)
(* message is not kept: whatever goes on the wire is the envelope of a     *)
(* send() of that very step on an OPEN socket, or the auth frame of the    *)
(* step in which the socket opens.                                         *)
(***************************************************************************)
Opening == socketRef = "CONNECTING" /\ socketRef' = "OPEN"

EnvelopeOf(call) ==
    IF call.data.binary
    THEN [binary |-> TRUE, body |-> call.data.v]
    ELSE [binary |-> FALSE, body |-> <<"{", "event", call.event, "data">> \o call.data.v \o <<"}">>]

IsAuth(frame) == ~frame.binary /\ Len(frame.body) >= 3 /\ frame.body[3] = "auth"

C6_SendWhileNotOpenIsDropped ==
    [][/\ called' # Nothing /\ socketRef # "OPEN" =>
            /\ wrote' = Nothing
            /\ UNCHANGED <<socketRef, closing, connected, token, listeners>>
       /\ wrote' # Nothing =>
            \/ called' # Nothing /\ socketRef = "OPEN" /\ wrote' = <<EnvelopeOf(called'[1])>>
            \/ called' = Nothing /\ Opening /\ IsAuth(wrote'[1])
      ]_vars

\* A question was sent while the indicator said connected and the new socket
\* was still connecting: nothing went on the wire.
C6_Witness ==
    /\ called # Nothing
    /\ called[1].event = "question"
    /\ wrote = Nothing
    /\ socketRef = "CONNECTING"
    /\ connected

(***************************************************************************)
(* C7: the step in which a socket opens writes exactly the auth frame with *)
(* the token when a token exists, and nothing when none exists; no other   *)
(* step writes an auth frame; every other frame goes on a socket that has  *)
(* opened before, so the auth frame is the first frame of its connection.  *)
(***************************************************************************)
AuthFrame(tok) ==
    [binary |-> FALSE, body |-> <<"{", "event", "auth", "data", "token:", tok, "}">>]

C7_AuthIsFirstFrame ==
    [][/\ Opening => wrote' = IF token = "undefined" THEN <<>> ELSE <<AuthFrame(token)>>
       /\ wrote' # Nothing =>
            /\ Len(wrote') = 1
            /\ IsAuth(wrote'[1]) => Opening
            /\ ~Opening => socketRef = "OPEN" /\ socketRef' = "OPEN"
      ]_vars

\* The socket of a later render has opened and sent its token.
C7_Witness ==
    /\ wrote = <<AuthFrame("jwt")>>
    /\ socketRef = "OPEN"
    /\ closing


(***************************************************************************)
(* C8: whatever subscribe and unsubscribe calls were made on a name, the   *)
(* table holds one handler or none for it, and a dispatch for the name     *)
(* invokes the handler subscribed last when no unsubscribe followed, and   *)
(* no handler otherwise.                                                   *)
(***************************************************************************)
C8_DispatchInvokesLatest ==
    [][/\ \A e \in {"status", "error", "answer", "binary"} :
            /\ listeners[e] \in {"h1", "h2", "none"}
            /\ SockMessage(Envelope(e)) => invoked' = latest[e]
       /\ SockMessage(Mp3) => invoked' = latest["binary"]
      ]_vars

\* A binary frame went to the handler that replaced an earlier one, while
\* a name that was unsubscribed has none.
C8_Witness ==
    /\ invoked = "h2"
    /\ latest["binary"] = "h2"
    /\ \A e \in {"status", "error", "answer"} : latest[e] # "h2"
    /\ latest["status"] = "none"
    /\ latest["answer"] = "h1"

(***************************************************************************)
(* C9 as stated: sending a non-empty question leaves the log as it was     *)
(* with a question entry and a loading entry appended, and hands one       *)
(* question envelope with the trimmed text and the audio flag to send; an  *)
(* empty or whitespace-only input changes nothing and sends nothing.       *)
(***************************************************************************)
Typed(input) ==
    CASE input = <<"q">> -> <<"q">>
      [] input = <<" ", "q", " ">> -> <<"q">>
      [] OTHER -> <<>>

QuestionCall(text, audio) ==
    <<[event |-> "question",
       data |-> [binary |-> FALSE,
                 v |-> <<"text:">> \o text \o <<"audio:", IF audio THEN "true" ELSE "false">>]]>>

\* handleSend leaves the two new entries at the end of `base`.
AsksOnto(base) ==
    \A input \in Inputs, audio \in BOOLEAN :
       HandleSend(input, audio) =>
          IF Typed(input) = <<>>
          THEN UNCHANGED messages /\ called' = <<>> /\ wrote' = <<>>
          ELSE /\ messages' = base \o
                     <<[type |-> "question", text |-> Typed(input), audioUrl |-> 0],
                       [type |-> "loading", text |-> <<"Thinking...">>, audioUrl |-> 0]>>
               /\ called' = QuestionCall(Typed(input), audio)

C9_AppendsToLogBefore == [][AsksOnto(messages)]_vars

\* C9 amended: the two entries are appended to the log before it without its
\* loading entries.
C9_AppendsToSettledLog == [][AsksOnto(Settled(messages))]_vars

\* A second question was asked while the first was pending.
C9_Witness ==
    /\ Len(messages) = 3
    /\ messages[1].type = "question"
    /\ messages[2].type = "question"
    /\ messages[3].type = "loading"
    /\ called # Nothing
    /\ called[1].event = "question"

(***************************************************************************)
(* C10: selecting a file whose name does not end in .txt, .pdf or .docx    *)
(* (in any case) appends one error entry, and no upload is ever sent for   *)
(* it; selecting a file with such a name adds no entry by itself, and      *)
(* once it is read an upload entry is appended and one upload envelope     *)
(* with its content and name is handed to send.                            *)
(***************************************************************************)
Accepted ==
    { <<"n", ".", "D", "o", "c", "X">>, <<"n", ".", "t", "x", "t">>, <<"n", ".", "P", "D", "F">> }

UploadCall(file) ==
    <<[event |-> "upload",
       data |-> [binary |-> FALSE,
                 v |-> <<"file:">> \o file.content \o <<"filename:">> \o file.name]]>>

C10_UploadOnlyAllowedFiles ==
    [][/\ \A f \in UploadFiles :
            /\ HandleFileChange(<<f>>) =>
                 IF f.name \in Accepted
                 THEN UNCHANGED messages /\ f \in reading' /\ called' = <<>>
                 ELSE /\ messages' = Append(messages,
                            [type |-> "error",
                             text |-> <<"Only .txt, .pdf, and .docx files are supported.">>,
                             audioUrl |-> 0])
                      /\ UNCHANGED reading
                      /\ called' = <<>> /\ wrote' = <<>>
            /\ ReaderOnload(f) =>
                 /\ f.name \in Accepted
                 /\ messages' = Append(messages,
                        [type |-> "upload",
                         text |-> <<"Uploading ">> \o f.name \o <<"...">>,
                         audioUrl |-> 0])
                 /\ called' = UploadCall(f)
       /\ \A f \in reading' : f.name \in Accepted
       /\ called' # <<>> =>
            \E f \in UploadFiles : f.name \in Accepted /\ called' = UploadCall(f)
      ]_vars

\* A file was refused, and a file with an upper-case extension was uploaded
\* on an open socket.
C10_Witness ==
    /\ Len(messages) >= 2
    /\ messages[1].type = "error"
    /\ messages[Len(messages)].type = "upload"
    /\ called = UploadCall([name |-> <<"n", ".", "P", "D", "F">>, content |-> <<"REVG">>])
    /\ wrote # Nothing


(***************************************************************************)
(* C11: whatever the step, the entries other than loading keep their       *)
(* kind, their text and their order, and none is removed: the kinds and    *)
(* texts of the non-loading entries before the step are a prefix of those  *)
(* after it.                                                               *)
(***************************************************************************)
Kept(msgs) == WithoutAudio(Settled(msgs))

IsPrefix(a, b) == Len(a) <= Len(b) /\ \A i \in 1..Len(a) : b[i] = a[i]

C11_LogOnlyGrows == [][IsPrefix(Kept(messages), Kept(messages'))]_vars

\* An answer has removed the loading entry that stood between a question and
\* a status entry, which are still there in their order.
C11_Witness ==
    /\ invoked = "onAnswer"
    /\ Len(messages) = 3
    /\ messages[1].type = "question"
    /\ messages[2].type = "status"
    /\ messages[3].type = "answer"

(***************************************************************************)
(* C12: in every reachable state an entry that has an audioUrl is an       *)
(* answer entry.                                                           *)
(***************************************************************************)
C12_OnlyAnswersHaveAudio ==
    \A i \in 1..Len(messages) : messages[i].audioUrl # 0 => messages[i].type = "answer"

\* A binary frame came while entries of other kinds followed the last answer.
C12_Witness ==
    /\ invoked = "onBinary"
    /\ Len(messages) = 3
    /\ messages[1].type = "answer" /\ messages[1].audioUrl # 0
    /\ messages[2].type = "question" /\ messages[2].audioUrl = 0
    /\ messages[3].type = "loading" /\ messages[3].audioUrl = 0


(***************************************************************************)
(* C13: a text frame that is no JSON, and an envelope whose event name has *)
(* no handler, call no handler and leave the socket, the connected flag,   *)
(* the listener table and the log as they were; the frame that comes next  *)
(* on the socket is dispatched as usual.                                   *)
(***************************************************************************)
Unparsable == [binary |-> FALSE, body |-> <<"{", "oops">>]

Unhandled(e) ==
    [binary |-> FALSE, body |-> <<"{", "event", e, "data">> \o InboundData(e) \o <<"}">>]

\* The last step was given a frame and called no handler.
JustDropped == delivered # <<>> /\ invoked = "none"

C13_DroppedFramesChangeNothing ==
    [][/\ \A f \in {Unparsable} \cup {Unhandled(e) : e \in {e \in EventNames : listeners[e] = "none"}} :
            SockMessage(f) =>
              /\ invoked' = "none"
              /\ UNCHANGED <<messages, connected, socketRef, closing, listeners,
                             token, reading, mounted>>
       /\ JustDropped =>
            /\ socketRef = "OPEN"
            /\ SockMessage(Unhandled("status")) =>
                 /\ invoked' = "onStatus"
                 /\ messages' = Append(messages, [type |-> "status", text |-> <<"s">>, audioUrl |-> 0])
            /\ SockMessage(Unhandled("answer")) =>
                 /\ invoked' = "onAnswer"
                 /\ messages'[Len(messages')] = [type |-> "answer", text |-> <<"a">>, audioUrl |-> 0]
      ]_vars

\* A frame that is no JSON was dropped while a question was pending; the socket
\* is open and the page still says connected.
C13_Witness ==
    /\ delivered = <<Unparsable>>
    /\ invoked = "none"
    /\ socketRef = "OPEN"
    /\ connected
    /\ Len(messages) = 2
    /\ messages[2].type = "loading"


(***************************************************************************)
(* C14: an error event of the transport changes neither the socket nor the *)
(* connected flag nor the log; the socket becomes CLOSED by its close      *)
(* event only; a CLOSED socket is replaced only when the effect of the     *)
(* hook runs again, never by itself.                                       *)
(***************************************************************************)
C14_ErrorChangesNothingCloseIsFinal ==
    [][/\ SockError => UNCHANGED <<socketRef, connected, messages, closing, listeners>>
       /\ socketRef # "CLOSED" /\ socketRef' = "CLOSED" => SockClose /\ ~connected'
       /\ socketRef = "CLOSED" /\ socketRef' # "CLOSED" =>
            /\ mounted = "yes"
            /\ token' # token
            /\ socketRef' = "CONNECTING"
      ]_vars

\* The socket of the mounted page has closed after it had been open.
C14_Witness ==
    /\ socketRef = "CLOSED"
    /\ mounted = "yes"
    /\ ~connected
    /\ ~closing
    /\ messages # <<>>


(***************************************************************************)
(* C15: submitting a non-empty website address u appends one website       *)
(* entry with text "Indexing website: u" at the tail of the log, changes   *)
(* no other entry and hands one website envelope {url: u} to send; an      *)
(* empty address changes nothing and sends nothing.                        *)
(***************************************************************************)
Address(urlInput) == IF urlInput = <<" ", "u">> THEN <<"u">> ELSE <<>>

WebsiteCall(u) ==
    <<[event |-> "website", data |-> [binary |-> FALSE, v |-> <<"url:">> \o u]]>>

C15_WebsiteAppendsAndSends ==
    [][\A urlInput \in UrlInputs :
          HandleUrlSend(urlInput) =>
             IF Address(urlInput) = <<>>
             THEN UNCHANGED messages /\ called' = <<>> /\ wrote' = <<>>
             ELSE /\ messages' = Append(messages,
                        [type |-> "website",
                         text |-> <<"Indexing website: ">> \o Address(urlInput),
                         audioUrl |-> 0])
                  /\ called' = WebsiteCall(Address(urlInput))
      ]_vars

\* A website was submitted on a log that held an entry, and its envelope went
\* on the wire.
C15_Witness ==
    /\ called = WebsiteCall(<<"u">>)
    /\ wrote # <<>>
    /\ Len(messages) >= 2
    /\ messages[Len(messages)].type = "website"


(***************************************************************************)
(* C16: the text frame send(e, d) writes on an OPEN socket, given back to  *)
(* onmessage, reaches the handler registered for e with data equal to d;   *)
(* a raw binary d is written as it is, without envelope and without the    *)
(* event name.                                                             *)
(***************************************************************************)
Registered(e) == IF e \in DOMAIN latest THEN latest[e] ELSE "none"

C16_EncodeDecodeRoundTrip ==
    [][/\ \A e \in ClientEvents, d \in ClientData :
            ClientSend(e, d) /\ socketRef = "OPEN" =>
              /\ Len(wrote') = 1
              /\ wrote'[1].binary = d.binary
              /\ d.binary => wrote'[1].body = d.v
       /\ called # <<>> /\ wrote # <<>> /\ Loopback =>
            /\ delivered' = wrote
            /\ IF called[1].data.binary
               THEN /\ invoked' = latest["binary"]
                    /\ delivered'[1].body = called[1].data.v
               ELSE /\ invoked' = Registered(called[1].event)
                    /\ JSONParse(delivered'[1].body).ok
                    /\ JSONParse(delivered'[1].body).event = called[1].event
                    /\ JSONParse(delivered'[1].body).data = called[1].data.v
      ]_vars

\* An envelope the client sent came back and reached the handler subscribed
\* last for its event name.
C16_Witness ==
    /\ delivered = <<[binary |-> FALSE, body |-> <<"{", "event", "answer", "data", "}", "{", "}">>]>>
    /\ invoked = "h2"
    /\ latest["answer"] = "h2"
    /\ latest["binary"] = "h1"


(***************************************************************************)
(* C17: the handler subscribed under the key binary runs for binary frames *)
(* only: whenever the last step called it, the frame of that step was a    *)
(* binary frame, never a text frame, whatever event name its envelope      *)
(* carries.                                                                *)
(***************************************************************************)
C17_BinaryHandlerOnlyForBinaryFrames ==
    invoked = "onBinary" => delivered # <<>> /\ delivered[1].binary

(***************************************************************************)
(* C18: the connected flag follows the current socket: it is true while    *)
(* the current socket is OPEN, also when a superseded socket closes after  *)
(* the current one has opened, and it is false once the current socket's   *)
(* close event has been handled.                                           *)
(***************************************************************************)
C18_ConnectedFollowsCurrentSocket ==
    /\ socketRef = "OPEN" => connected
    /\ socketRef = "CLOSED" => ~connected


(***************************************************************************)
(* C19: in every reachable state the log holds at most one loading entry.  *)
(***************************************************************************)
C19_AtMostOneLoading == CountOfType(messages, "loading") <= 1

\* Two questions were sent before any response: one loading entry.
C19_Witness ==
    /\ called # <<>>
    /\ called[1].event = "question"
    /\ CountOfType(messages, "question") = 2
    /\ CountOfType(messages, "answer") = 0
    /\ CountOfType(messages, "status") = 0
    /\ CountOfType(messages, "loading") = 1
    /\ messages[Len(messages)].type = "loading"

(***************************************************************************)
(* C20: frames are handled in the order of their delivery, each at once:   *)
(* the entry a status or answer frame appends comes last, after the entry  *)
(* of the frame delivered right before it, and a binary frame delivered    *)
(* right after an answer frame attaches to the entry of that answer.       *)
(***************************************************************************)
\* The last step was given an envelope of `e`, which appended the last entry.
JustHandled(e) ==
    /\ delivered = <<Unhandled(e)>>
    /\ invoked # "none"
    /\ Len(messages) >= 1
    /\ messages[Len(messages)].type = e

C20_HandledInDeliveryOrder ==
    [][/\ \A e \in {"status", "answer"} :
            SockMessage(Unhandled(e)) =>
              /\ Len(messages') >= 1
              /\ messages'[Len(messages')] = [type |-> e, text |-> InboundData(e), audioUrl |-> 0]
              /\ \A first \in {"status", "answer"} :
                    JustHandled(first) =>
                      /\ Len(messages') >= 2
                      /\ messages'[Len(messages') - 1] = messages[Len(messages)]
       /\ JustHandled("answer") /\ SockMessage(Mp3) =>
            /\ Len(messages') = Len(messages)
            /\ messages'[Len(messages')].type = "answer"
            /\ messages'[Len(messages')].audioUrl # 0
            /\ \A i \in 1..(Len(messages) - 1) : messages'[i] = messages[i]
      ]_vars

\* A status frame, an answer frame and a binary frame came in this order: the
\* status entry stands before the answer, and the answer has the audio.
C20_Witness ==
    /\ delivered = <<Mp3>>
    /\ invoked = "onBinary"
    /\ Len(messages) = 3
    /\ messages[1].type = "answer" /\ messages[1].audioUrl = 0
    /\ messages[2].type = "status"
    /\ messages[3].type = "answer" /\ messages[3].audioUrl # 0

====
